---- MODULE Spec2Model ----
(***************************************************************************)
(* Extraction orchestration engine of Extraction-Service: the unified      *)
(* handler (handler/clinical_and_hospital_summary_extraction_handler.py),  *)
(* the two domain aggregators, the capability tools and the repositories.  *)
(*                                                                         *)
(* A "call" is one invocation of handler.process or of an aggregator's     *)
(* extract.  Calls run as asyncio coroutines on one event loop: a step of  *)
(* the model is what runs between two suspension points (an awaited model  *)
(* request or an awaited database operation).                              *)
(***************************************************************************)
EXTENDS Integers, Sequences, FiniteSets, TLC

\* ------------------------------------------------------------------ bounds
\* How many of the eight clinical section tools are modelled (they are
\* created, started, joined and back-filled by identical code).
NumClinicalTools == 1

\* Python's None where a string is expected, and where an object is expected.
None == "None"
Nil == [nil |-> TRUE]

\* ------------------------------------------------------------ capabilities
\* handler.__init__: the eight clinical tools.
AllClinicalTools ==
    << "assessment", "follow_up", "presentation", "history",
       "findings", "course", "treatments", "labs" >>

ClinicalTools == { AllClinicalTools[i] : i \in 1..NumClinicalTools }

\* All eight, whether or not a specification runs them.
ClinicalToolSet == { AllClinicalTools[i] : i \in DOMAIN AllClinicalTools }

\* handler.__init__: the three hospital tools.
HospitalTools == { "facility_timing", "diagnosis", "medication_risk" }

Tools == ClinicalTools \cup HospitalTools

\* ---------------------------------------------------------------- requests
\* An ExtractionRequest: owner and raw text.  The first text carries an
\* encounter identifier of its own, the second carries none.
Requests ==
    { [patient_id |-> "P-1", raw_text |-> "T-1"],
      [patient_id |-> "P-2", raw_text |-> "T-2"] }

\* The identifier the facility/timing capability reads out of a text
\* (FacilityTimingExtractionResponse.hospitalization_id, Optional).
EncounterIdIn(text) == IF text = "T-1" THEN "ENC-1" ELSE None

\* --------------------------------------------------------- capability tool
\* How one awaited self._agent.run(prompt) can end: with a validated output,
\* or with one of the exceptions tool.run distinguishes.
AgentEnds == { "output", "ModelRetry", "UnexpectedModelBehavior", "Exception" }
AgentFailures == AgentEnds \ { "output" }

\* The typed response of capability t for a text: the section data (named by
\* the tool and the text it was read from) and the two Optional identifiers,
\* which only the facility/timing response fills from the note.
\* A date string of TimingData, by what datetime.fromisoformat makes of it:
\* "z" ends in Z ('2025-10-15T14:30:00Z'), "offset" carries a UTC offset
\* ('...+00:00'), "naive" carries none ('2025-10-15', '2025-10-15T14:30:00'),
\* "invalid" is no ISO 8601 date ('unknown', '').  day and hour place the
\* instant on a common clock.
DateStr(form, day, hour) == [form |-> form, day |-> day, hour |-> hour]

\* Admission and discharge date written in a text (TimingData's two dates);
\* the fourth text gives the admission with a time and Z and the discharge
\* as a bare date.
TimingIn(text) ==
    IF text = "T-1"
    THEN [ admission_date |-> DateStr("z", 10, 0), discharge_date |-> DateStr("z", 13, 0) ]
    ELSE IF text = "T-4"
    THEN [ admission_date |-> DateStr("z", 10, 12), discharge_date |-> DateStr("naive", 13, 0) ]
    ELSE [ admission_date |-> DateStr("z", 20, 0), discharge_date |-> DateStr("z", 20, 0) ]

\* LabSummary: four counts, all 0 by default.
LabSummary(total, critical, abnormal, normal) ==
    [ total_tests |-> total, critical_count |-> critical,
      abnormal_count |-> abnormal, normal_count |-> normal ]

\* LabExtractionResponse's data: the LabTest list (a test is its status here)
\* and the summary the model returned with it.
LabsData(text, lab_results, lab_summary) ==
    [tool |-> "labs", src |-> text, lab_results |-> lab_results, lab_summary |-> lab_summary]

\* The labs and the treatments written in a text.
LabsIn(text) == IF text = "T-1" THEN << "critical", "normal" >> ELSE << >>
TreatmentsIn(text) == IF text = "T-1" THEN << "treatment-1" >> ELSE << >>

\* The lab summary the model returns for a text: the default counts, or (a
\* malformed answer) a negative total.
LabSummaryIn(text) ==
    IF text = "T-3" THEN LabSummary(-1, 0, 0, 0) ELSE LabSummary(0, 0, 0, 0)

\* FacilityData.facility_name and DiagnosisData.primary_diagnosis are plain
\* str fields: the model returns "" for a note that names none.
FacilityNameIn(text) == IF text = "T-2" THEN "" ELSE "General Hospital"
PrimaryDiagnosisIn(text) == IF text = "T-3" THEN "" ELSE "Acute kidney injury"

SectionData(t, text) ==
    IF t = "facility_timing"
    THEN [ tool |-> t, src |-> text, timing |-> TimingIn(text),
           facility_name |-> FacilityNameIn(text) ]
    ELSE IF t = "diagnosis"
    THEN [tool |-> t, src |-> text, primary_diagnosis |-> PrimaryDiagnosisIn(text)]
    ELSE IF t = "labs"
    THEN LabsData(text, LabsIn(text), LabSummaryIn(text))
    ELSE IF t = "treatments"
    THEN [tool |-> t, src |-> text, treatments_procedures |-> TreatmentsIn(text)]
    ELSE [tool |-> t, src |-> text]

\* The patient identifier the facility/timing capability reads out of a text
\* (FacilityTimingExtractionResponse.patient_id, Optional).
FacilityPatientIdIn(text) == IF text = "T-1" THEN "P-1" ELSE None

\* The response a tool's run returns.  The two id fields of a clinical
\* response are left at their default; the facility/timing response carries
\* the ids its model found in the text; the diagnosis and medication-risk
\* responses have no id fields (None stands for their absence).
Respond(t, text) ==
    [ data |-> SectionData(t, text),
      patient_id |->
          IF t = "facility_timing" THEN FacilityPatientIdIn(text) ELSE None,
      hospitalization_id |->
          IF t = "facility_timing" THEN EncounterIdIn(text) ELSE None ]

\* The exception tool.run raises for a failed agent run: every except branch
\* raises the built-in ValueError "<capability> extraction ..." from exc.
RunErrorType == "ValueError"

RunError(t, end) ==
    [ type |-> RunErrorType,
      extractor_name |-> None,
      message_names |-> t,
      cause |-> end ]

run_ReturnsOnFailure(t, text, end) ==
    [ok |-> TRUE, value |-> Respond(t, text), error |-> Nil]

\* tool.run(clinical_text) given how the agent run ends.
run(t, text, end) ==
    IF end = "output"
    THEN [ok |-> TRUE, value |-> Respond(t, text), error |-> Nil]
    ELSE [ok |-> FALSE, value |-> Nil, error |-> RunError(t, end)]

\* Exception classes of core/exceptions.py below ExtractionError.
ExtractionErrorTypes == { "ExtractionError", "LLMExtractionError", "ValidationError" }

\* ------------------------------------------------------------------- state
\* Two calls (of handler.process or of an aggregator's extract), issued at any
\* time, so that they run one after the other or concurrently.
Calls == { 1, 2 }

VARIABLES
    uuidCount,              \* number of uuid.uuid4() values drawn so far
    kind,                   \* per call: which operation it is
    pc,                     \* per call: where its coroutine is suspended
    req,                    \* per call: the request (patient_id, raw_text)
    hospitalization_id,     \* per call: the local hospitalization_id
    task,                   \* per call, per tool: state of the tool.run task
    resp,                   \* per call, per tool: the response it returned
    comp,                   \* per call: the assembled composite(s)
    save,                   \* per call, per record type: state of the save task
    saved,                  \* per call, per record type: the db_record returned
    exc,                    \* per call: the exception the call raised
    ret,                    \* per call: the value the call returned
    clinical_summaries,     \* table clinical_summaries
    hospital_summaries      \* table hospital_summaries

hvars == << uuidCount, kind, pc, req, hospitalization_id, task, resp, comp,
            save, saved, exc, ret, clinical_summaries, hospital_summaries >>

\* One tool.run seen from inside: the agent's attempts.
VARIABLES
    max_retries,            \* pydantic_ai_settings.max_retries
    run_state,              \* where the run is: idle, awaiting_model, returned, raised
    run_args,               \* the tool run and the text it was given
    attempts,               \* model requests the agent has made in this run
    retries,                \* the agent's retry counter
    run_result              \* what run returned or raised

tvars == << max_retries, run_state, run_args, attempts, retries, run_result >>

\* Direct use of the repositories: the create calls made so far, in order.
VARIABLES create_log

\* One value crossing a PydanticJSONB column: where it is on its way to the
\* database and back, the Python value first bound, and its current form.
VARIABLES bridge

\* Composites assembled and saved one after the other, with what they were
\* assembled from and the row stored for them.
VARIABLES kept

\* One ExtractionService.process call at a time: where it is, what it was
\* asked, the composite its extractor assembled, the data to save, and what
\* it returned or raised.
VARIABLES svc

\* One "async with db_session.get_session()" scope around one repository
\* method: the AsyncSession, its transaction, where the method is, and what
\* the method and the scope handed to their callers.
VARIABLES scope

\* ExtractorRegistry._extractors, the warnings logged by register, and the
\* instances registered so far.
VARIABLES registry

\* One TimingData and what reading its length_of_stay_days gave.
VARIABLES stay

xvars == << bridge, kept, svc, scope, registry, stay >>
x_but_bridge == << kept, svc, scope, registry, stay >>
x_but_kept == << bridge, svc, scope, registry, stay >>
x_but_svc == << bridge, kept, scope, registry, stay >>
x_but_scope == << bridge, kept, svc, registry, stay >>
x_but_registry == << bridge, kept, svc, scope, stay >>
x_but_stay == << bridge, kept, svc, scope, registry >>

vars == << hvars, tvars, create_log, xvars >>

RecordTypes == { "clinical", "hospital" }

\* uuid.uuid4(): a token no earlier draw returned.
Uuid4(n) == "uuid-" \o ToString(n)

\* PydanticAISettings.max_retries: default 2, ge=0, le=5.
MaxRetriesDefault == 2
MaxRetriesLimit == 5

ToolInit ==
    /\ run_state = "idle"
    /\ run_args = Nil
    /\ attempts = 0
    /\ retries = 0
    /\ run_result = Nil

\* The handler, its calls and the two tables after construction.
HandlerInit ==
    /\ uuidCount = 0
    /\ kind = [c \in Calls |-> "none"]
    /\ pc = [c \in Calls |-> "idle"]
    /\ req = [c \in Calls |-> Nil]
    /\ hospitalization_id = [c \in Calls |-> None]
    /\ task = [c \in Calls |-> [t \in Tools |-> "none"]]
    /\ resp = [c \in Calls |-> [t \in Tools |-> Nil]]
    /\ comp = [c \in Calls |-> [w \in RecordTypes |-> Nil]]
    /\ save = [c \in Calls |-> [w \in RecordTypes |-> "none"]]
    /\ saved = [c \in Calls |-> [w \in RecordTypes |-> [record |-> Nil, error |-> Nil, stored |-> Nil]]]
    /\ exc = [c \in Calls |-> Nil]
    /\ ret = [c \in Calls |-> Nil]
    /\ clinical_summaries = {}
    /\ hospital_summaries = {}

\* No value is crossing a PydanticJSONB column.
BridgeInit == bridge = [stage |-> "none", bound |-> Nil, value |-> Nil]

Slots == { 1, 2 }

\* The specifications that do not use them start without them.  Of a
\* service call: whether its extractor's aggregator was awaited, how many
\* sessions it opened and create calls it made, and the tables and the
\* registry as they were when it was called.
ServiceIdle(n) ==
    [ pc |-> "idle", calls |-> n, extractor_name |-> None, patient_id |-> None,
      raw_text |-> None, composite |-> Nil, data |-> Nil, exc |-> Nil, record |-> Nil,
      invoked |-> FALSE, sessions |-> 0, creates |-> 0, before |-> Nil ]

\* No session scope is open; opened and closed count the sessions made by
\* async_session_maker and the ones released, exits the ways scopes have ended.
ScopeIdle(opened, closed, exits, last) ==
    [ pc |-> "idle", session |-> "none", opened |-> opened, closed |-> closed,
      exits |-> exits, last |-> last, method |-> None, record_type |-> None,
      arg |-> Nil, before |-> {}, result |-> Nil, exc |-> Nil, rollbacks |-> 0 ]

\* ExtractorRegistry.__new__: the one instance starts with no extractors.
RegistryInit ==
    registry = [ _extractors |-> << >>, warnings |-> << >>, history |-> << >> ]

AuxInit ==
    /\ BridgeInit
    /\ kept = [i \in Slots |-> Nil]
    /\ svc = ServiceIdle(0)
    /\ scope = ScopeIdle(0, 0, {}, Nil)
    /\ RegistryInit

Init ==
    /\ max_retries = MaxRetriesDefault
    /\ ToolInit
    /\ create_log = << >>
    /\ HandlerInit
    /\ AuxInit
    /\ stay = Nil

\* ------------------------------------------------------------- handler.process
GeneratedId_DrawnOnce(n) == Uuid4(0)

\* hospitalization_id = str(uuid.uuid4()), a local of the call.
GeneratedId(n) == Uuid4(n)

\* Which of the handler's tools the first gather of process starts at once.
ProcessTasks == Tools

\* process, up to its first suspension: draw the hospitalization_id, create
\* the task list and await asyncio.gather(*tasks), which starts them all.
process(c, r) ==
    /\ pc[c] = "idle"
    /\ uuidCount' = uuidCount + 1
    /\ hospitalization_id' = [hospitalization_id EXCEPT ![c] = GeneratedId(uuidCount + 1)]
    /\ kind' = [kind EXCEPT ![c] = "process"]
    /\ req' = [req EXCEPT ![c] = r]
    /\ task' = [task EXCEPT ![c] =
                   [t \in Tools |-> IF t \in ProcessTasks THEN "running" ELSE "none"]]
    /\ pc' = [pc EXCEPT ![c] = "gather_extract"]
    /\ UNCHANGED << resp, comp, save, saved, exc, ret,
                    clinical_summaries, hospital_summaries, tvars, create_log, xvars >>

BackFill_NothingWritten(response, patient_id, hid) == response

\* response.model_copy(update={"patient_id": ..., "hospitalization_id": ...}).
BackFill(response, patient_id, hid) ==
    [response EXCEPT !.patient_id = patient_id, !.hospitalization_id = hid]

\* The eight model_copy lines: every clinical response is replaced by its
\* back-filled copy before ClinicalSummary is built from them.
BackFilled(patient_id, hid, responses) ==
    [ t \in DOMAIN responses \cap ClinicalToolSet |->
          BackFill(responses[t], patient_id, hid) ]

\* How many tests of a LabTest list have one of the given statuses.
RECURSIVE Count(_, _)
Count(lab_results, statuses) ==
    IF lab_results = << >> THEN 0
    ELSE (IF Head(lab_results) \in statuses THEN 1 ELSE 0)
         + Count(Tail(lab_results), statuses)

_ensure_lab_summary_AbnormalAsNormal(labs_resp) ==
    IF labs_resp.lab_summary.total_tests > 0
    THEN labs_resp.lab_summary
    ELSE LET total == Len(labs_resp.lab_results)
             critical == Count(labs_resp.lab_results, { "critical" })
             abnormal == Count(labs_resp.lab_results, { "abnormal_high", "abnormal_low" })
         IN LabSummary(total, critical, abnormal, total - critical)

\* _ensure_lab_summary(labs_resp): the returned summary when its total_tests
\* is positive, and otherwise the counts computed from lab_results.
_ensure_lab_summary(labs_resp) ==
    IF labs_resp.lab_summary.total_tests > 0
    THEN labs_resp.lab_summary
    ELSE LET total == Len(labs_resp.lab_results)
             critical == Count(labs_resp.lab_results, { "critical" })
             abnormal == Count(labs_resp.lab_results, { "abnormal_high", "abnormal_low" })
         IN LabSummary(total, critical, abnormal, total - critical - abnormal)

\* What ClinicalSummary takes from the response of tool t: its section, and
\* for labs the list with the ensured summary.
Section(t, response) ==
    IF t = "labs"
    THEN [response.data EXCEPT !.lab_summary = _ensure_lab_summary(response.data)]
    ELSE response.data

\* _assemble_clinical_summary: back-fill both ids into every response, build
\* ClinicalSummary from the section data and the metadata block.
_assemble_clinical_summary(patient_id, hid, raw_text, responses) ==
    LET filled == BackFilled(patient_id, hid, responses)
    IN  [ summary |-> [t \in DOMAIN filled |-> Section(t, filled[t])],
          metadata |-> [ hospitalization_id |-> hid,
                         patient_id |-> patient_id,
                         raw_summary_text |-> raw_text ] ]

\* The identifier _assemble_hospital_summary gives the summary card.
AssembledHospitalId_FromFacility(hid, facility_timing_resp) ==
    facility_timing_resp.hospitalization_id

AssembledHospitalId(hid, facility_timing_resp) == hid

\* HospitalAdmissionSummaryCard(facility=..., timing=..., diagnosis=...,
\* medication_risk_assessment=..., hospitalization_id=hid).
HospitalAdmissionSummaryCard(responses, hid) ==
    [ facility |-> responses["facility_timing"].data,
      timing |-> responses["facility_timing"].data.timing,
      diagnosis |-> responses["diagnosis"].data,
      medication_risk_assessment |-> responses["medication_risk"].data,
      hospitalization_id |-> hid ]

\* _assemble_hospital_summary: the summary card with the generated id.
_assemble_hospital_summary(hid, responses) ==
    HospitalAdmissionSummaryCard(
        responses, AssembledHospitalId(hid, responses["facility_timing"]))

gather_ReturnExceptions(results, tasks) ==
    IF \A t \in tasks : results[t] # Nil THEN "return" ELSE "pending"

\* What the coroutine awaiting asyncio.gather(*tasks) sees, given the results
\* (Nil while a task is pending): the first exception as soon as one task has
\* raised, the list of results once all have returned.
gather(results, tasks) ==
    IF \E t \in tasks : results[t] # Nil /\ ~results[t].ok THEN "raise"
    ELSE IF \A t \in tasks : results[t] # Nil THEN "return"
    ELSE "pending"

Values(results, tasks) == [t \in tasks |-> results[t].value]

\* date.replace('Z', '+00:00').
replace_Z(date) == IF date.form = "z" THEN [date EXCEPT !.form = "offset"] ELSE date

\* datetime.fromisoformat(date): an aware or a naive datetime (hours on the
\* common clock), or ValueError.
fromisoformat(date) ==
    IF date.form \in { "offset", "naive" }
    THEN [ error |-> None, aware |-> date.form = "offset",
           hours |-> 24 * date.day + date.hour ]
    ELSE [ error |-> "ValueError", aware |-> FALSE, hours |-> 0 ]

\* TimingData.length_of_stay_days: max(0, (discharge - admission).days),
\* and 0 when a date does not parse (ValueError is caught).  Subtracting an
\* aware and a naive datetime raises TypeError, which the property's
\* "except (ValueError, AttributeError)" does not catch: error names the
\* exception that leaves the property, value is what it returns otherwise.
length_of_stay_days(timing) ==
    LET admission == fromisoformat(replace_Z(timing.admission_date))
        discharge == fromisoformat(replace_Z(timing.discharge_date))
        days == (discharge.hours - admission.hours) \div 24
    IN IF admission.error # None \/ discharge.error # None
       THEN [value |-> 0, error |-> None]
       ELSE IF admission.aware # discharge.aware
       THEN [value |-> None, error |-> "TypeError"]
       ELSE [value |-> IF days > 0 THEN days ELSE 0, error |-> None]

\* ---------------------------------------------------------------- repositories
\* a or b of two Optional strings.
Or(a, b) == IF a # None THEN a ELSE b

\* ClinicalSummaryRepository.create, one JSONB column of db_data: a section
\* dumped as it is, a list dumped or None when it is empty; the lab summary
\* has no column.
Column(t, section) ==
    IF t = "labs"
    THEN (IF section.lab_results = << >> THEN Nil
          ELSE [items |-> section.lab_results])
    ELSE IF t = "treatments"
    THEN (IF section.treatments_procedures = << >> THEN Nil
          ELSE [items |-> section.treatments_procedures])
    ELSE section

\* ClinicalSummaryRepository.create: the row built from data (db_data).
ClinicalRow(data, id) ==
    [ id |-> id,
      patient_id |-> Or(data.patient_id, data.summary.metadata.patient_id),
      hospitalization_id |-> data.summary.metadata.hospitalization_id,
      sections |-> [t \in DOMAIN data.summary.summary |->
                       Column(t, data.summary.summary[t])] ]

\* HospitalSummaryRepository.create: the row built from data (db_data).
HospitalRow(data, id) ==
    [ id |-> id,
      patient_id |-> data.patient_id,
      hospitalization_id |-> data.summary_card.hospitalization_id,
      facility |-> data.summary_card.facility,
      timing |-> data.summary_card.timing,
      diagnosis |-> data.summary_card.diagnosis,
      medication_risk_assessment |-> data.summary_card.medication_risk_assessment,
      length_of_stay_days |-> length_of_stay_days(data.summary_card.timing).value ]

\* repositories/models/clinical_summary_db.py: hospitalization_id is a
\* nullable Text column with index=True and no unique constraint, so no
\* insert conflicts with a stored row.
ClinicalConflict(table, row) == FALSE

\* hospital_summaries: the table enforces uniqueness of a non-null
\* hospitalization_id (the IntegrityError create's handler looks for).
HospitalConflict(table, row) ==
    /\ row.hospitalization_id # None
    /\ \E old \in table : old.hospitalization_id = row.hospitalization_id

\* ClinicalSummaryRepository.create, except branches: every failure,
\* IntegrityError included, is re-raised as DatabaseError.
ClinicalCreateError(conflict, hid) ==
    [type |-> "DatabaseError", field |-> None, value |-> None]

HospitalCreateError_AlwaysDatabaseError(conflict, hid) ==
    [type |-> "DatabaseError", field |-> None, value |-> None]

\* HospitalSummaryRepository.create, except branches: IntegrityError on a
\* non-empty hospitalization_id is DuplicateRecordError, the rest DatabaseError.
HospitalCreateError(conflict, hid) ==
    IF conflict /\ hid # None
    THEN [type |-> "DuplicateRecordError", field |-> "hospitalization_id", value |-> hid]
    ELSE [type |-> "DatabaseError", field |-> None, value |-> None]

\* The stored rows of one record type.
TableOf(w) == IF w = "clinical" THEN clinical_summaries ELSE hospital_summaries

Row(w, data, id) == IF w = "clinical" THEN ClinicalRow(data, id) ELSE HospitalRow(data, id)

Conflict(w, row) ==
    IF w = "clinical" THEN ClinicalConflict(clinical_summaries, row)
    ELSE HospitalConflict(hospital_summaries, row)

CreateError(w, conflict, hid) ==
    IF w = "clinical" THEN ClinicalCreateError(conflict, hid)
    ELSE HospitalCreateError(conflict, hid)

\* The ways the database answers one create / update / delete: everything
\* succeeds, the awaited commit raises, or the commit succeeds and the
\* awaited session.refresh that follows it raises.
DbOutcomes == { "ok", "commit_fails", "refresh_fails" }

\* repository.create(data) on the current tables: record is the refreshed
\* db_record create returns, error the exception it raises after its rollback,
\* stored the row its commit made durable.  A failure while db_data is built
\* (no patient_id, or length_of_stay_days raising) or in the commit stores
\* nothing; a failure of the refresh comes after the
\* commit, so the rollback in the except branch has nothing left to undo.
\* The row's id is the column default uuid.uuid4.
create(w, data, db) ==
    LET row == Row(w, data, Uuid4(uuidCount + 1))
        conflict == Conflict(w, row)
        built == /\ row.patient_id # None
                 /\ w = "hospital" =>
                        length_of_stay_days(data.summary_card.timing).error = None
        committed == built /\ db # "commit_fails" /\ ~conflict
    IN IF committed /\ db = "ok"
       THEN [record |-> row, error |-> Nil, stored |-> row]
       ELSE [ record |-> Nil,
              error |-> CreateError(w, built /\ db # "commit_fails" /\ conflict,
                                    row.hospitalization_id),
              stored |-> IF committed THEN row ELSE Nil ]

Store_NotCommitted(w, out) ==
    UNCHANGED << uuidCount, clinical_summaries, hospital_summaries >>

\* The effect of create on the tables: the committed row, or nothing.
Store(w, out) ==
    IF out.stored # Nil
    THEN /\ uuidCount' = uuidCount + 1
         /\ clinical_summaries' =
                IF w = "clinical" THEN clinical_summaries \cup {out.stored}
                ELSE clinical_summaries
         /\ hospital_summaries' =
                IF w = "hospital" THEN hospital_summaries \cup {out.stored}
                ELSE hospital_summaries
    ELSE UNCHANGED << uuidCount, clinical_summaries, hospital_summaries >>

\* The data dictionary _save_clinical_summary / _save_hospital_summary pass.
SaveData(w, patient_id, composite) ==
    IF w = "clinical"
    THEN [patient_id |-> patient_id, summary |-> composite]
    ELSE [patient_id |-> patient_id, summary_card |-> composite]

\* ------------------------------------------------- process, after a task ends
Summary_IdsSwapped(hid, clinical_db_record, hospital_db_record) ==
    [ hospitalization_id |-> hid,
      clinical_summary |->
          [ id |-> hospital_db_record.id,
            patient_id |-> clinical_db_record.patient_id,
            hospitalization_id |-> clinical_db_record.hospitalization_id ],
      hospital_summary |->
          [ id |-> clinical_db_record.id,
            patient_id |-> hospital_db_record.patient_id,
            hospitalization_id |-> hospital_db_record.hospitalization_id,
            length_of_stay_days |-> hospital_db_record.length_of_stay_days ] ]

\* The summary dictionary process returns.
Summary(hid, clinical_db_record, hospital_db_record) ==
    [ hospitalization_id |-> hid,
      clinical_summary |->
          [ id |-> clinical_db_record.id,
            patient_id |-> clinical_db_record.patient_id,
            hospitalization_id |-> clinical_db_record.hospitalization_id ],
      hospital_summary |->
          [ id |-> hospital_db_record.id,
            patient_id |-> hospital_db_record.patient_id,
            hospitalization_id |-> hospital_db_record.hospitalization_id,
            length_of_stay_days |-> hospital_db_record.length_of_stay_days ] ]

LocalId_HandlerField(c) ==
    IF \E d \in Calls : d # c /\ kind[d] = "process"
    THEN hospitalization_id[CHOOSE d \in Calls : d # c /\ kind[d] = "process"]
    ELSE hospitalization_id[c]

\* The hospitalization_id process passes to the two _assemble methods: the
\* local variable of this call's own coroutine frame.
LocalId(c) == hospitalization_id[c]

\* process resumes from the first gather with all eleven results: it
\* assembles both composites and starts the two save tasks, each of which
\* opens its session and runs repository.create up to the awaited commit.
ProcessContinue(c, results, tasks) ==
    LET values == Values(results, ProcessTasks)
    IN /\ comp' = [comp EXCEPT ![c] =
              [ clinical |-> _assemble_clinical_summary(
                                 req[c].patient_id, LocalId(c),
                                 req[c].raw_text, values),
                hospital |-> _assemble_hospital_summary(LocalId(c), values) ]]
       /\ save' = [save EXCEPT ![c] = [w \in RecordTypes |-> "open"]]
       /\ pc' = [pc EXCEPT ![c] = "gather_save"]
       /\ task' = [task EXCEPT ![c] = tasks]
       /\ resp' = [resp EXCEPT ![c] = results]
       /\ UNCHANGED << hospitalization_id, ret >>

\* ------------------------------- HospitalAdmissionSummaryCardExtractor.extract
HospitalExtractFirst_AllAtOnce == HospitalTools

\* The tool extract runs first, alone ("Run facility_timing FIRST").
HospitalExtractFirst == { "facility_timing" }

\* extract(clinical_text), up to its first suspension: facility/timing alone
\* is awaited first.
hospital_extract(c, r) ==
    /\ pc[c] = "idle"
    /\ kind' = [kind EXCEPT ![c] = "hospital_extract"]
    /\ req' = [req EXCEPT ![c] = [patient_id |-> None, raw_text |-> r.raw_text]]
    /\ task' = [task EXCEPT ![c] =
           [t \in Tools |-> IF t \in HospitalExtractFirst THEN "running" ELSE "none"]]
    /\ pc' = [pc EXCEPT ![c] = "await_facility"]
    /\ UNCHANGED << uuidCount, hospitalization_id, resp, comp, save, saved, exc,
                    ret, clinical_summaries, hospital_summaries, tvars, create_log, xvars >>

\* The tasks extract gathers after facility/timing has returned.
HospitalExtractTasks == { "diagnosis", "medication_risk" }

\* extract resumes after facility/timing: it takes the response's
\* hospitalization_id and gathers the other two tools.
HospitalExtractContinue(c, results, tasks) ==
    /\ hospitalization_id' = [hospitalization_id EXCEPT ![c] =
           results["facility_timing"].value.hospitalization_id]
    /\ task' = [task EXCEPT ![c] =
           [u \in Tools |-> IF u \in HospitalExtractTasks THEN "running" ELSE tasks[u]]]
    /\ resp' = [resp EXCEPT ![c] = results]
    /\ pc' = [pc EXCEPT ![c] = "gather_extract"]
    /\ UNCHANGED << comp, save, ret >>

\* extract resumes from its gather: it builds and returns the summary card.
HospitalExtractReturn(c, results, tasks) ==
    LET card == HospitalAdmissionSummaryCard(
                    Values(results, HospitalTools), hospitalization_id[c])
    IN /\ comp' = [comp EXCEPT ![c]["hospital"] = card]
       /\ ret' = [ret EXCEPT ![c] = card]
       /\ pc' = [pc EXCEPT ![c] = "returned"]
       /\ task' = [task EXCEPT ![c] = tasks]
       /\ resp' = [resp EXCEPT ![c] = results]
       /\ UNCHANGED << hospitalization_id, save >>

\* --------------------------------------------- ClinicalSummaryExtractor.extract
\* The identifiers the regular expressions of extract find in a text:
\* "Patient ID: ..." (or an MRN) and "DOC_ID:..." (or an Encounter ID).
PatientIdIn(text) == IF text = "T-1" THEN "P-1" ELSE None
DocIdIn(text) == None

\* The metadata argument of extract: absent, or carrying the owner.
MetadataFor(r) ==
    { [patient_id |-> None, hospitalization_id |-> None],
      [patient_id |-> r.patient_id, hospitalization_id |-> None] }

\* extract(clinical_text, metadata), up to its first suspension: resolve the
\* two ids from the metadata or the text, then gather the section tools.
clinical_extract(c, r, metadata) ==
    /\ pc[c] = "idle"
    /\ kind' = [kind EXCEPT ![c] = "clinical_extract"]
    /\ req' = [req EXCEPT ![c] =
                  [ patient_id |-> Or(metadata.patient_id, PatientIdIn(r.raw_text)),
                    raw_text |-> r.raw_text ]]
    /\ hospitalization_id' = [hospitalization_id EXCEPT ![c] =
                  Or(metadata.hospitalization_id,
                     Or(DocIdIn(r.raw_text), EncounterIdIn(r.raw_text)))]
    /\ task' = [task EXCEPT ![c] =
                   [t \in Tools |-> IF t \in ClinicalTools THEN "running" ELSE "none"]]
    /\ pc' = [pc EXCEPT ![c] = "gather_extract"]
    /\ UNCHANGED << uuidCount, resp, comp, save, saved, exc, ret,
                    clinical_summaries, hospital_summaries, tvars, create_log, xvars >>

\* extract resumes from its gather: the responses are back-filled and the
\* ClinicalSummaryResult is built and returned.
ClinicalExtractReturn(c, results, tasks) ==
    LET result == _assemble_clinical_summary(
                      req[c].patient_id, hospitalization_id[c],
                      req[c].raw_text, Values(results, ClinicalTools))
    IN /\ comp' = [comp EXCEPT ![c]["clinical"] = result]
       /\ ret' = [ret EXCEPT ![c] = result]
       /\ pc' = [pc EXCEPT ![c] = "returned"]
       /\ task' = [task EXCEPT ![c] = tasks]
       /\ resp' = [resp EXCEPT ![c] = results]
       /\ UNCHANGED << hospitalization_id, save >>

\* ------------------------------------------------------------ a tool.run ends
\* The tasks the coroutine of call c is awaiting: facility/timing alone, or
\* the tasks of its gather.
Awaited(c) ==
    IF pc[c] = "await_facility" THEN { "facility_timing" }
    ELSE IF pc[c] # "gather_extract" THEN {}
    ELSE IF kind[c] = "process" THEN ProcessTasks
    ELSE IF kind[c] = "hospital_extract" THEN HospitalExtractTasks
    ELSE ClinicalTools

\* The awaited agent run of task t of call c ends and tool.run returns or
\* raises.  The coroutine awaiting it stays suspended while other awaited
\* tasks are pending, resumes with the first exception (which leaves
\* process / extract at once: the other tasks are not cancelled, and what
\* they return is dropped), or resumes with all the results.
TaskDone(c, t, end) ==
    /\ task[c][t] = "running"
    /\ LET results == [resp[c] EXCEPT ![t] = run(t, req[c].raw_text, end)]
           ended == IF end = "output" THEN "ok" ELSE "failed"
           tasks == [task[c] EXCEPT ![t] = ended]
       IN IF t \notin Awaited(c)
          THEN /\ task' = [task EXCEPT ![c][t] = "discarded"]
               /\ UNCHANGED << pc, hospitalization_id, resp, comp, save, exc, ret >>
          ELSE IF gather(results, Awaited(c)) = "pending"
          THEN /\ task' = [task EXCEPT ![c][t] = ended]
               /\ resp' = [resp EXCEPT ![c] = results]
               /\ UNCHANGED << pc, hospitalization_id, comp, save, exc, ret >>
          ELSE IF gather(results, Awaited(c)) = "raise"
          THEN /\ pc' = [pc EXCEPT ![c] = "raised"]
               /\ exc' = [exc EXCEPT ![c] = results[t].error]
               /\ task' = [task EXCEPT ![c] =
                      [u \in Tools |->
                          IF u # t /\ tasks[u] = "ok" THEN "discarded" ELSE tasks[u]]]
               /\ resp' = [resp EXCEPT ![c] = [u \in Tools |-> Nil]]
               /\ UNCHANGED << hospitalization_id, comp, save, ret >>
          ELSE /\ UNCHANGED exc
               /\ IF kind[c] = "process"
                  THEN ProcessContinue(c, results, tasks)
                  ELSE IF kind[c] = "clinical_extract"
                  THEN ClinicalExtractReturn(c, results, tasks)
                  ELSE IF pc[c] = "await_facility"
                  THEN HospitalExtractContinue(c, results, tasks)
                  ELSE HospitalExtractReturn(c, results, tasks)
    /\ UNCHANGED << uuidCount, kind, req, saved, clinical_summaries,
                    hospital_summaries, tvars, create_log, xvars >>

\* ------------------------------------------------------------------ save tasks
\* repository.create of a save task reaches the end of its awaited commit:
\* the row is stored and refreshed, or the insert fails (a uniqueness
\* conflict, or the database failing) and create rolls back and raises.
SaveCommit(c, w, db) ==
    /\ save[c][w] = "open"
    /\ LET out == create(w, SaveData(w, req[c].patient_id, comp[c][w]), db)
       IN /\ Store(w, out)
          /\ saved' = [saved EXCEPT ![c][w] = out]
          /\ save' = [save EXCEPT ![c][w] =
                 IF out.record # Nil THEN "committed" ELSE "aborted"]
    /\ UNCHANGED << kind, pc, req, hospitalization_id, task, resp, comp, exc, ret,
                    tvars, create_log, xvars >>

\* A save task leaves "async with get_session()": the session is closed and
\* the task ends; process resumes from the second gather with the first
\* exception, or, once both records are back, returns the summary.
SaveClose(c, w) ==
    /\ save[c][w] \in { "committed", "aborted" }
    /\ LET after == [save[c] EXCEPT ![w] =
                        IF save[c][w] = "committed" THEN "done" ELSE "failed"]
       IN /\ save' = [save EXCEPT ![c] = after]
          /\ IF pc[c] # "gather_save"
             THEN UNCHANGED << pc, exc, ret >>
             ELSE IF after[w] = "failed"
             THEN /\ pc' = [pc EXCEPT ![c] = "raised"]
                  /\ exc' = [exc EXCEPT ![c] = saved[c][w].error]
                  /\ UNCHANGED ret
             ELSE IF \A x \in RecordTypes : after[x] = "done"
             THEN /\ pc' = [pc EXCEPT ![c] = "returned"]
                  /\ ret' = [ret EXCEPT ![c] =
                         Summary(hospitalization_id[c],
                                 saved[c]["clinical"].record,
                                 saved[c]["hospital"].record)]
                  /\ UNCHANGED exc
             ELSE UNCHANGED << pc, exc, ret >>
    /\ UNCHANGED << uuidCount, kind, req, hospitalization_id, task, resp, comp,
                    saved, clinical_summaries, hospital_summaries, tvars, create_log, xvars >>

Next ==
    \/ \E c \in Calls, r \in Requests : process(c, r)
    \/ \E c \in Calls, r \in Requests : hospital_extract(c, r)
    \/ \E c \in Calls, r \in Requests :
           \E m \in MetadataFor(r) : clinical_extract(c, r, m)
    \/ \E c \in Calls, t \in Tools, end \in AgentEnds : TaskDone(c, t, end)
    \/ \E c \in Calls, w \in RecordTypes, db \in DbOutcomes : SaveCommit(c, w, db)
    \/ \E c \in Calls, w \in RecordTypes : SaveClose(c, w)

Spec == Init /\ [][Next]_vars

\* ======================================================================
\* One tool.run, attempt by attempt
\* ======================================================================
AgentRetries_OneMore(m) == m + 1

\* Agent(..., retries=pydantic_ai_settings.max_retries): how many times the
\* agent asks the model again after an output that fails validation.
AgentRetries(m) == m

\* run(clinical_text): build the prompt and await self._agent.run(prompt),
\* which sends the first model request.
RunStart(t, text) ==
    /\ run_state # "awaiting_model"
    /\ run_state' = "awaiting_model"
    /\ run_args' = [tool |-> t, text |-> text]
    /\ attempts' = 1
    /\ retries' = 0
    /\ run_result' = Nil
    /\ UNCHANGED << max_retries, hvars, create_log, xvars >>

\* The model answers with an output that validates against the response
\* type: the agent run ends and run returns result.output.
ModelOutputValid ==
    /\ run_state = "awaiting_model"
    /\ run_state' = "returned"
    /\ run_result' = run(run_args.tool, run_args.text, "output")
    /\ UNCHANGED << max_retries, run_args, attempts, retries, hvars, create_log, xvars >>

\* The model answers with an output that fails validation: the agent asks
\* again while retries are left, and otherwise ends with
\* UnexpectedModelBehavior, which run re-raises as its error.
ModelOutputInvalid ==
    /\ run_state = "awaiting_model"
    /\ IF retries < AgentRetries(max_retries)
       THEN /\ retries' = retries + 1
            /\ attempts' = attempts + 1
            /\ UNCHANGED << run_state, run_result >>
       ELSE /\ run_state' = "raised"
            /\ run_result' = run(run_args.tool, run_args.text, "UnexpectedModelBehavior")
            /\ UNCHANGED << retries, attempts >>
    /\ UNCHANGED << max_retries, run_args, hvars, create_log, xvars >>

\* The model request itself fails (the service is down, the connection
\* drops): the agent run ends with that exception, which the last except
\* branch of run re-raises as its error.
ModelRequestFails ==
    /\ run_state = "awaiting_model"
    /\ run_state' = "raised"
    /\ run_result' = run(run_args.tool, run_args.text, "Exception")
    /\ UNCHANGED << max_retries, run_args, attempts, retries, hvars, create_log, xvars >>

\* Any configured max_retries the settings accept (ge=0, le=5).
InitTool ==
    /\ max_retries \in 0..MaxRetriesLimit
    /\ ToolInit
    /\ create_log = << >>
    /\ HandlerInit
    /\ AuxInit
    /\ stay = Nil

NextTool ==
    \/ \E t \in Tools, r \in Requests : RunStart(t, r.raw_text)
    \/ ModelOutputValid
    \/ ModelOutputInvalid
    \/ ModelRequestFails

SpecTool == InitTool /\ [][NextTool]_vars

\* ======================================================================
\* One process call whose capabilities may never respond
\* ======================================================================
FairCalls == { 1 }

\* The model never answers the request of task t: its awaited agent run
\* never ends.  Nothing in tool.run or in process bounds the wait
\* (pydantic_ai_settings.timeout_seconds is read nowhere).
ModelHangs(c, t) ==
    /\ task[c][t] = "running"
    /\ task' = [task EXCEPT ![c][t] = "hung"]
    /\ UNCHANGED << uuidCount, kind, pc, req, hospitalization_id, resp, comp, save,
                    saved, exc, ret, clinical_summaries, hospital_summaries,
                    tvars, create_log, xvars >>

NextFair ==
    \/ \E c \in FairCalls, r \in Requests : process(c, r)
    \/ \E c \in FairCalls, t \in Tools, end \in AgentEnds : TaskDone(c, t, end)
    \/ \E c \in FairCalls, t \in Tools : ModelHangs(c, t)
    \/ \E c \in FairCalls, w \in RecordTypes, db \in DbOutcomes : SaveCommit(c, w, db)
    \/ \E c \in FairCalls, w \in RecordTypes : SaveClose(c, w)

\* The event loop runs every coroutine that is ready: an agent run whose
\* model answers ends, and a database operation (command_timeout 60) ends.
Fairness ==
    /\ WF_vars(\E c \in FairCalls, t \in Tools, end \in AgentEnds : TaskDone(c, t, end))
    /\ WF_vars(\E c \in FairCalls, w \in RecordTypes, db \in DbOutcomes :
                   SaveCommit(c, w, db))
    /\ WF_vars(\E c \in FairCalls, w \in RecordTypes : SaveClose(c, w))

FairSpec == Init /\ [][NextFair]_vars /\ Fairness

\* ======================================================================
\* The repositories used directly
\* ======================================================================
MaxCreates == 3

\* The correlation ids a caller passes to create.
CreateIds == { None, "H-1", "H-2" }

\* A data dictionary for create(data) whose composite carries hid.
RepoData(w, hid) ==
    LET responses == [t \in Tools |-> Respond(t, "T-1")]
    IN SaveData(w, "P-1",
                IF w = "clinical"
                THEN _assemble_clinical_summary("P-1", hid, "T-1", responses)
                ELSE HospitalAdmissionSummaryCard(responses, hid))

\* One whole repository.create(data) in a session of its own.
RepoCreate(w, hid, db) ==
    /\ Len(create_log) < MaxCreates
    /\ LET out == create(w, RepoData(w, hid), db)
       IN /\ Store(w, out)
          /\ create_log' = Append(create_log,
                 [ record_type |-> w, hospitalization_id |-> hid,
                   db |-> db, out |-> out ])
    /\ UNCHANGED << kind, pc, req, hospitalization_id, task, resp, comp, save,
                    saved, exc, ret, tvars, xvars >>

NextRepo ==
    \E w \in RecordTypes, hid \in CreateIds, db \in DbOutcomes : RepoCreate(w, hid, db)

SpecRepo == Init /\ [][NextRepo]_vars

\* ======================================================================
\* PydanticJSONB: a typed value to a JSONB column and back
\* ======================================================================
\* FacilityType(str, Enum).
FacilityTypes == { "acute_care", "psychiatric", "rehabilitation", "ltac" }

\* A member of a str Enum, as a Python object.
Member(enum, value) == [enum |-> enum, value |-> value]

\* Valid instances of Address and of FacilityData (the type T of the column):
\* required strings, Optional strings, an Enum field and an Optional nested
\* model.
AddressInstances ==
    { [cls |-> "Address", street |-> s, city |-> "Springfield", state |-> "IL", zip |-> z] :
        s \in { None, "1 Main St" }, z \in { None, "62701" } }

FacilityDataInstances ==
    { [ cls |-> "FacilityData", facility_name |-> n, facility_id |-> i,
        facility_type |-> Member("FacilityType", ft), address |-> a ] :
        n \in { "General", "" }, i \in { None, "F-1" }, ft \in FacilityTypes,
        a \in AddressInstances \cup { Nil } }

\* BaseModel.model_dump(): nested models become dicts; an Enum member stays
\* the member (python mode).
model_dump(x) ==
    [ facility_name |-> x.facility_name,
      facility_id |-> x.facility_id,
      facility_type |-> x.facility_type,
      address |-> IF x.address = Nil THEN Nil
                  ELSE [ street |-> x.address.street, city |-> x.address.city,
                         state |-> x.address.state, zip |-> x.address.zip ] ]

\* impl = JSONB, on the way in: the dict is written as JSON text, a str Enum
\* member as the string it is.
json_dumps(d) == [d EXCEPT !.facility_type = d.facility_type.value]

\* impl = JSONB, on the way out: the JSON document read as a dict.
json_loads(j) == j

\* pydantic_model(**value): validation builds the nested model and turns the
\* string into the Enum member (or fails on a string that names no member).
Validate(value) ==
    IF value.facility_type \notin FacilityTypes
    THEN [cls |-> "ValidationError"]
    ELSE [ cls |-> "FacilityData",
           facility_name |-> value.facility_name,
           facility_id |-> value.facility_id,
           facility_type |-> Member("FacilityType", value.facility_type),
           address |-> IF value.address = Nil THEN Nil
                       ELSE [ cls |-> "Address", street |-> value.address.street,
                              city |-> value.address.city,
                              state |-> value.address.state,
                              zip |-> value.address.zip ] ]

\* process_bind_param(value, dialect) for None or an instance of the model.
process_bind_param(value) ==
    IF value = Nil THEN Nil ELSE model_dump(value)

process_result_value_ReturnsDict(value) == value

\* process_result_value(value, dialect).
process_result_value(value) ==
    IF value = Nil THEN Nil ELSE Validate(value)

\* A row is flushed: the column's Python value goes through
\* process_bind_param.
Bind(x) ==
    /\ bridge.stage = "none"
    /\ bridge' = [stage |-> "bound", bound |-> x, value |-> process_bind_param(x)]
    /\ UNCHANGED << hvars, tvars, create_log, x_but_bridge >>

\* The bound parameter is sent and stored as JSONB (SQL NULL for None).
Write ==
    /\ bridge.stage = "bound"
    /\ bridge' = [bridge EXCEPT !.stage = "stored",
                     !.value = IF bridge.value = Nil THEN Nil ELSE json_dumps(bridge.value)]
    /\ UNCHANGED << hvars, tvars, create_log, x_but_bridge >>

\* The column is fetched from the database.
Fetch ==
    /\ bridge.stage = "stored"
    /\ bridge' = [bridge EXCEPT !.stage = "fetched",
                     !.value = IF bridge.value = Nil THEN Nil ELSE json_loads(bridge.value)]
    /\ UNCHANGED << hvars, tvars, create_log, x_but_bridge >>

\* The fetched value goes through process_result_value.
Result ==
    /\ bridge.stage = "fetched"
    /\ bridge' = [bridge EXCEPT !.stage = "result",
                     !.value = process_result_value(bridge.value)]
    /\ UNCHANGED << hvars, tvars, create_log, x_but_bridge >>

NextBridge ==
    \/ \E x \in FacilityDataInstances \cup { Nil } : Bind(x)
    \/ Write
    \/ Fetch
    \/ Result

SpecBridge == Init /\ [][NextBridge]_vars

\* ======================================================================
\* Assembling a composite and saving it, for any labs response
\* ======================================================================
MaxLabs == 2

LabStatuses == { "critical", "abnormal_high", "abnormal_low", "normal" }

\* LabTest lists of up to MaxLabs tests.
LabResults == UNION { [1..n -> LabStatuses] : n \in 0..MaxLabs }

\* Summaries the model may return: the default, one with its counts filled,
\* one with a count but no total, and one with a negative total.
LabSummaries ==
    { LabSummary(0, 0, 0, 0), LabSummary(2, 1, 0, 1), LabSummary(0, 1, 0, 0),
      LabSummary(-1, 0, 0, 0) }

\* The responses of the capabilities for a text, the labs response apart.
Responses(text, lab_results, lab_summary) ==
    [t \in ClinicalToolSet \cup HospitalTools |->
        IF t = "labs"
        THEN [ data |-> LabsData(text, lab_results, lab_summary),
               patient_id |-> None, hospitalization_id |-> None ]
        ELSE Respond(t, text)]

\* process from the first gather's results on, for one record type: the
\* composite is assembled and its save task runs to the end.
AssembleAndSave(i, w, r, hid, lab_results, lab_summary) ==
    /\ kept[i] = Nil
    /\ LET responses == Responses(r.raw_text, lab_results, lab_summary)
           composite == IF w = "clinical"
                        THEN _assemble_clinical_summary(
                                 r.patient_id, hid, r.raw_text, responses)
                        ELSE _assemble_hospital_summary(hid, responses)
           out == create(w, SaveData(w, r.patient_id, composite), "ok")
       IN /\ Store(w, out)
          /\ kept' = [kept EXCEPT ![i] =
                 IF out.record = Nil THEN Nil
                 ELSE [ record_type |-> w, labs_resp |-> responses["labs"].data,
                        composite |-> composite, row |-> out.record ]]
    /\ UNCHANGED << kind, pc, req, hospitalization_id, task, resp, comp, save,
                    saved, exc, ret, tvars, create_log, x_but_kept >>

\* A clinical composite for any labs response, or a hospital composite under
\* any identifier (the labs response is no part of it).
NextAssembly ==
    \/ \E i \in Slots, r \in Requests,
          lab_results \in LabResults, lab_summary \in LabSummaries :
           AssembleAndSave(i, "clinical", r, "H-1", lab_results, lab_summary)
    \/ \E i \in Slots, r \in Requests, hid \in { "H-1", "H-2" } :
           AssembleAndSave(i, "hospital", r, hid, << >>, LabSummary(0, 0, 0, 0))

SpecAssembly == Init /\ [][NextAssembly]_vars

\* ======================================================================
\* ExtractionService.process through the wrapper extractors
\* ======================================================================
MaxServiceCalls == 2

\* The extractors registered at import, and the table of each.
RegisteredExtractors == { "hospital_summary", "clinical_summary" }

table_name(name) == IF name = "hospital_summary" THEN "hospital" ELSE "clinical"

\* ======================================================================
\* ExtractorRegistry
\* ======================================================================
MaxRegistryOps == 4

\* An extractor instance: BaseExtractor's name and table_name, and which
\* object it is (the n-th instance constructed).
Extractor(name, n) == [name |-> name, table_name |-> table_name(name), instance |-> n]

\* "name in self._extractors".
Contains(_extractors, name) ==
    \E i \in DOMAIN _extractors : _extractors[i].name = name

SetItem_Appends(_extractors, extractor) == Append(_extractors, extractor)

\* "self._extractors[name] = extractor" on a dict, kept in insertion
\* order: the value under a present key is replaced where it is, a new key
\* goes to the end.
SetItem(_extractors, extractor) ==
    IF Contains(_extractors, extractor.name)
    THEN [ i \in DOMAIN _extractors |->
             IF _extractors[i].name = extractor.name THEN extractor ELSE _extractors[i] ]
    ELSE Append(_extractors, extractor)

\* "del self._extractors[name]".
IsNot(name, extractor) == extractor.name # name

DelItem(_extractors, name) ==
    LET Keep(extractor) == IsNot(name, extractor)
    IN SelectSeq(_extractors, Keep)

get_AnyExtractor(name) ==
    IF registry._extractors = << >> THEN Nil ELSE registry._extractors[1]

\* registry.get(name): the instance, or None.
get(name) ==
    IF Contains(registry._extractors, name)
    THEN LET i == CHOOSE i \in DOMAIN registry._extractors :
                      registry._extractors[i].name = name
         IN registry._extractors[i]
    ELSE Nil

\* registry.list_names(): list(self._extractors.keys()).
list_names == [ i \in DOMAIN registry._extractors |-> registry._extractors[i].name ]

\* registry.register(extractor): a warning if the name is present, then the
\* entry is set.
register(name) ==
    /\ Len(registry.history) < MaxRegistryOps
    /\ LET extractor == Extractor(name, Len(registry.history) + 1)
       IN registry' =
              [ _extractors |-> SetItem(registry._extractors, extractor),
                warnings |-> IF Contains(registry._extractors, name)
                             THEN Append(registry.warnings, name)
                             ELSE registry.warnings,
                history |-> Append(registry.history,
                                   [op |-> "register", name |-> name,
                                    extractor |-> extractor, returned |-> Nil]) ]
    /\ UNCHANGED << hvars, tvars, create_log, x_but_registry >>

\* registry.unregister(name): True after removing the entry, False if there
\* was none.
unregister(name) ==
    /\ Len(registry.history) < MaxRegistryOps
    /\ registry' =
           [ registry EXCEPT
               !._extractors = IF Contains(@, name) THEN DelItem(@, name) ELSE @,
               !.history = Append(@, [op |-> "unregister", name |-> name,
                                      extractor |-> Nil,
                                      returned |-> [value |->
                                          Contains(registry._extractors, name)]]) ]
    /\ UNCHANGED << hvars, tvars, create_log, x_but_registry >>

NextRegistry ==
    \/ \E name \in RegisteredExtractors : register(name)
    \/ \E name \in RegisteredExtractors : unregister(name)

SpecRegistry == Init /\ [][NextRegistry]_vars

\* The registry once both wrapper modules have been imported: each ends with
\* registry.register(<its extractor>()).
RegisteredAtImport ==
    LET hospital == Extractor("hospital_summary", 1)
        clinical == Extractor("clinical_summary", 2)
    IN [ _extractors |-> SetItem(SetItem(<< >>, hospital), clinical),
         warnings |-> << >>,
         history |-> << [ op |-> "register", name |-> hospital.name,
                          extractor |-> hospital, returned |-> Nil ],
                        [ op |-> "register", name |-> clinical.name,
                          extractor |-> clinical, returned |-> Nil ] >> ]

\* ======================================================================
\* ExtractionService.process, continued
\* ======================================================================
\* Notes with a facility and a diagnosis, without a facility name, without a
\* primary diagnosis (and a malformed lab total), and with the discharge
\* given as a bare date.
ServiceTexts == { "T-1", "T-2", "T-3", "T-4" }

\* The empty string and a string of white space only.
Blank == { "", " " }

\* str.strip().
strip(text) == IF text \in Blank THEN "" ELSE text

validate_input_EmptyOnly(patient_id, raw_text) ==
    IF patient_id = "" \/ raw_text = ""
    THEN [type |-> "ValidationError", field |-> None, cause |-> Nil]
    ELSE Nil

\* BaseExtractor.validate_input: both arguments must be non-empty, also
\* after strip().
validate_input(patient_id, raw_text) ==
    IF patient_id = "" \/ strip(patient_id) = "" \/ raw_text = "" \/ strip(raw_text) = ""
    THEN [type |-> "ValidationError", field |-> None, cause |-> Nil]
    ELSE Nil

\* What the aggregator behind a wrapper returns when all its tools return:
\* HospitalAdmissionSummaryCardExtractor.extract(raw_text), or
\* ClinicalSummaryExtractor.extract(raw_text, metadata) with the metadata the
\* wrapper builds (patient_id, no hospitalization_id).
aggregator_extract(name, patient_id, raw_text) ==
    LET responses == Responses(raw_text, LabsIn(raw_text), LabSummaryIn(raw_text))
    IN IF name = "hospital_summary"
       THEN HospitalAdmissionSummaryCard(
                responses, responses["facility_timing"].hospitalization_id)
       ELSE _assemble_clinical_summary(
                patient_id, Or(DocIdIn(raw_text), EncounterIdIn(raw_text)),
                raw_text, responses)

\* _validate_extraction of the wrapper named name: the ValidationError it
\* raises, or Nil when the composite passes.
_validate_extraction(name, composite) ==
    IF name = "hospital_summary"
    THEN IF length_of_stay_days(composite.timing).error # None
         THEN [ type |-> length_of_stay_days(composite.timing).error,
                field |-> "length_of_stay_days", cause |-> Nil ]
         ELSE IF length_of_stay_days(composite.timing).value < 0
         THEN [type |-> "ValidationError", field |-> "length_of_stay_days", cause |-> Nil]
         ELSE IF composite.facility.facility_name = ""
         THEN [type |-> "ValidationError", field |-> "facility.facility_name", cause |-> Nil]
         ELSE IF composite.diagnosis.primary_diagnosis = ""
         THEN [type |-> "ValidationError", field |-> "diagnosis.primary_diagnosis",
               cause |-> Nil]
         ELSE Nil
    ELSE IF "presentation" \notin DOMAIN composite.summary
         THEN [type |-> "ValidationError", field |-> "summary.patient_presentation",
               cause |-> Nil]
         ELSE IF composite.summary["labs"].lab_summary.total_tests < 0
         THEN [type |-> "ValidationError", field |-> "summary.lab_summary.total_tests",
               cause |-> Nil]
         ELSE Nil

\* The wrapper's "except Exception": whatever was raised inside the try block
\* leaves extract as LLMExtractionError(extractor_name=self.name) from e.
Wrapped(name, e) ==
    [type |-> "LLMExtractionError", field |-> name, cause |-> e]

Extracting_SessionFirst(call) ==
    [call EXCEPT !.pc = "extracting", !.invoked = TRUE, !.sessions = 1]

\* process awaits extractor.extract, which awaits the aggregator and so
\* starts its capability runs; no session exists yet.
Extracting(call) == [call EXCEPT !.pc = "extracting", !.invoked = TRUE]

\* process(extractor_name, patient_id, raw_text), up to the awaited
\* extractor.extract: an unknown name raises ValueError, the wrapper's
\* validate_input (outside its try block) raises ValidationError, and
\* otherwise the aggregator is awaited.
service_process(name, patient_id, raw_text) ==
    /\ svc.pc \in { "idle", "returned", "raised" }
    /\ svc.calls < MaxServiceCalls
    /\ LET call == [ServiceIdle(svc.calls + 1) EXCEPT
                       !.extractor_name = name, !.patient_id = patient_id,
                       !.raw_text = raw_text,
                       !.before = [ clinical |-> clinical_summaries,
                                    hospital |-> hospital_summaries,
                                    registry |-> registry ]]
       IN svc' =
            IF get(name) = Nil
            THEN [call EXCEPT !.pc = "raised",
                     !.exc = [type |-> "ValueError", field |-> None, cause |-> Nil]]
            ELSE IF validate_input(patient_id, raw_text) # Nil
            THEN [call EXCEPT !.pc = "raised", !.exc = validate_input(patient_id, raw_text)]
            ELSE Extracting(call)
    /\ UNCHANGED << hvars, tvars, create_log, x_but_svc >>

\* The awaited aggregator raises the ValueError of a failed tool.run: the
\* wrapper wraps it and process re-raises the ExtractionError as it is.
service_extract_fails(t, end) ==
    /\ svc.pc = "extracting"
    /\ end # "output"
    /\ t \in (IF svc.extractor_name = "hospital_summary" THEN HospitalTools
              ELSE ClinicalToolSet)
    /\ svc' = [svc EXCEPT !.pc = "raised",
                  !.exc = Wrapped(svc.extractor_name,
                                  [ type |-> RunErrorType, field |-> None,
                                    cause |-> Nil ])]
    /\ UNCHANGED << hvars, tvars, create_log, x_but_svc >>

\* The awaited aggregator returns its composite: the wrapper validates it
\* (a ValidationError is raised inside the try block) and returns the data
\* dictionary, and process opens a session and calls repository.create.
service_extract_returns ==
    /\ svc.pc = "extracting"
    /\ LET composite == aggregator_extract(svc.extractor_name, svc.patient_id, svc.raw_text)
           invalid == _validate_extraction(svc.extractor_name, composite)
       IN svc' =
            IF invalid # Nil
            THEN [svc EXCEPT !.pc = "raised", !.composite = composite,
                     !.exc = Wrapped(svc.extractor_name, invalid)]
            ELSE [svc EXCEPT !.pc = "saving", !.composite = composite,
                     !.sessions = @ + 1, !.creates = @ + 1,
                     !.data = SaveData(table_name(svc.extractor_name),
                                       svc.patient_id, composite)]
    /\ UNCHANGED << hvars, tvars, create_log, x_but_svc >>

\* repository.create ends: process returns the db_record, or re-raises the
\* DatabaseError after the session has rolled back and closed.
service_save(db) ==
    /\ svc.pc = "saving"
    /\ LET w == table_name(svc.extractor_name)
           out == create(w, svc.data, db)
       IN /\ Store(w, out)
          /\ svc' = IF out.record # Nil
                    THEN [svc EXCEPT !.pc = "returned", !.record = out.record]
                    ELSE [svc EXCEPT !.pc = "raised",
                             !.exc = [ type |-> out.error.type, field |-> out.error.field,
                                       cause |-> Nil ]]
    /\ UNCHANGED << kind, pc, req, hospitalization_id, task, resp, comp, save,
                    saved, exc, ret, tvars, create_log, x_but_svc >>

NextService ==
    \/ \E name \in RegisteredExtractors \cup { "unknown" },
          patient_id \in { "P-1" } \cup Blank, raw_text \in ServiceTexts \cup Blank :
           service_process(name, patient_id, raw_text)
    \/ \E t \in ClinicalToolSet \cup HospitalTools, end \in AgentEnds :
           service_extract_fails(t, end)
    \/ service_extract_returns
    \/ \E db \in DbOutcomes : service_save(db)

\* The service is used once the extractor modules have been imported.
InitService ==
    /\ max_retries = MaxRetriesDefault
    /\ ToolInit
    /\ create_log = << >>
    /\ HandlerInit
    /\ BridgeInit
    /\ kept = [i \in Slots |-> Nil]
    /\ svc = ServiceIdle(0)
    /\ scope = ScopeIdle(0, 0, {}, Nil)
    /\ registry = RegisteredAtImport
    /\ stay = Nil

SpecService == InitService /\ [][NextService]_vars

\* ======================================================================
\* One repository method inside one get_session scope
\* ======================================================================
MaxScopes == 3

\* create, update and delete wrap their body in try / except Exception with
\* "await self.session.rollback()" before the raise; the get_by_* methods
\* have no handler of their own.
RollsBack(method) == method \in { "create", "update", "delete" }

\* The database's answers to a method that starts with a SELECT.
QueryOutcomes == DbOutcomes \cup { "execute_fails" }

RecordIds == { Uuid4(n) : n \in 1..MaxScopes }

\* The data dictionaries a caller passes to update.
UpdateData ==
    { [hospitalization_id |-> "H-2"],
      [id |-> Uuid4(0), patient_id |-> "P-2"],
      [timing |-> TimingIn("T-2")],
      [no_such_attribute |-> "x"] }

NoError == Nil
DatabaseError == [type |-> "DatabaseError", field |-> None, value |-> None]
RawError(type) == [type |-> type, field |-> None, value |-> None]

SetAttrs_IdToo(db_record, data) ==
    [ key \in DOMAIN db_record |->
        IF key \in DOMAIN data THEN data[key] ELSE db_record[key] ]

\* update's loop: setattr for every key the record has, except 'id'.
SetAttrs(db_record, data) ==
    [ key \in DOMAIN db_record |->
        IF key \in DOMAIN data /\ key # "id" THEN data[key] ELSE db_record[key] ]

\* result.scalar_one_or_none() over the rows a SELECT matched.
scalar_one_or_none(rows) ==
    IF rows = {} THEN [row |-> Nil, error |-> NoError]
    ELSE IF Cardinality(rows) = 1
    THEN [row |-> CHOOSE r \in rows : TRUE, error |-> NoError]
    ELSE [row |-> Nil, error |-> RawError("MultipleResultsFound")]

\* repository.update(record_id, data) on table w: what it returns, what it
\* raises, and the table after it.  Nothing is written unless the commit
\* succeeds; a refresh that fails after it leaves the update stored.
update(w, record_id, data, db) ==
    LET table == TableOf(w)
        found == scalar_one_or_none({ r \in table : r.id = record_id })
        new == SetAttrs(found.row, data)
        conflict == IF w = "clinical" THEN ClinicalConflict(table \ {found.row}, new)
                    ELSE HospitalConflict(table \ {found.row}, new)
        after == (table \ {found.row}) \cup {new}
    IN IF db = "execute_fails"
       THEN [result |-> Nil, error |-> DatabaseError, table |-> table]
       ELSE IF found.row = Nil
       THEN [result |-> Nil, error |-> NoError, table |-> table]
       ELSE IF db = "commit_fails" \/ conflict
       THEN [result |-> Nil, error |-> DatabaseError, table |-> table]
       ELSE IF db = "refresh_fails"
       THEN [result |-> Nil, error |-> DatabaseError, table |-> after]
       ELSE [result |-> new, error |-> NoError, table |-> after]

\* repository.delete(record_id) on table w: True, False, or DatabaseError
\* after the rollback; nothing follows the commit but the return.
delete(w, record_id, db) ==
    LET table == TableOf(w)
        found == scalar_one_or_none({ r \in table : r.id = record_id })
    IN IF db = "execute_fails"
       THEN [result |-> Nil, error |-> DatabaseError, table |-> table]
       ELSE IF found.row = Nil
       THEN [result |-> FALSE, error |-> NoError, table |-> table]
       ELSE IF db = "commit_fails"
       THEN [result |-> Nil, error |-> DatabaseError, table |-> table]
       ELSE [result |-> TRUE, error |-> NoError, table |-> table \ {found.row}]

\* repository.get_by_id(record_id): the row or None; an exception of
\* session.execute leaves the method as it is.
get_by_id(w, record_id, db) ==
    LET table == TableOf(w)
        found == scalar_one_or_none({ r \in table : r.id = record_id })
    IN IF db = "execute_fails"
       THEN [result |-> Nil, error |-> RawError("SQLAlchemyError"), table |-> table]
       ELSE [result |-> found.row, error |-> found.error, table |-> table]

\* repository.get_by_hospitalization_id(hid): the row, None, or the
\* MultipleResultsFound of scalar_one_or_none when several rows carry hid.
get_by_hospitalization_id(w, hid, db) ==
    LET table == TableOf(w)
        found == scalar_one_or_none({ r \in table : r.hospitalization_id = hid })
    IN IF db = "execute_fails"
       THEN [result |-> Nil, error |-> RawError("SQLAlchemyError"), table |-> table]
       ELSE [result |-> found.row, error |-> found.error, table |-> table]

\* repository.get_by_patient_id(patient_id): the patient's rows, newest
\* first, at most limit (10) of them; the tables here stay below the limit,
\* so the result holds every row of the patient.
get_by_patient_id(w, patient_id, db) ==
    LET table == TableOf(w)
    IN IF db = "execute_fails"
       THEN [result |-> Nil, error |-> RawError("SQLAlchemyError"), table |-> table]
       ELSE [ result |-> [items |-> { r \in table : r.patient_id = patient_id }],
              error |-> NoError, table |-> table ]

\* The owners a caller looks up.
PatientIds == { "P-1", "P-2" }

\* The arguments each method is called with.
ArgsOf(method) ==
    IF method \in { "create", "get_by_hospitalization_id" } THEN CreateIds
    ELSE IF method = "update" THEN [record_id : RecordIds, data : UpdateData]
    ELSE IF method = "get_by_patient_id" THEN PatientIds
    ELSE RecordIds

RepositoryMethods ==
    { "create", "get_by_id", "get_by_hospitalization_id", "get_by_patient_id",
      "update", "delete" }

\* One whole method call on the current tables.
MethodCall(method, w, arg, db) ==
    IF method = "create"
    THEN LET out == create(w, RepoData(w, arg), IF db = "execute_fails" THEN "ok" ELSE db)
         IN [ result |-> out.record, error |-> out.error,
              table |-> IF out.stored = Nil THEN TableOf(w)
                        ELSE TableOf(w) \cup {out.stored} ]
    ELSE IF method = "update" THEN update(w, arg.record_id, arg.data, db)
    ELSE IF method = "delete" THEN delete(w, arg, db)
    ELSE IF method = "get_by_id" THEN get_by_id(w, arg, db)
    ELSE IF method = "get_by_patient_id" THEN get_by_patient_id(w, arg, db)
    ELSE get_by_hospitalization_id(w, arg, db)

\* The tables and the uuid draws after a method call left table as w's rows.
Commit(method, w, table) ==
    /\ uuidCount' = IF method = "create" /\ table # TableOf(w)
                    THEN uuidCount + 1 ELSE uuidCount
    /\ clinical_summaries' = IF w = "clinical" THEN table ELSE clinical_summaries
    /\ hospital_summaries' = IF w = "hospital" THEN table ELSE hospital_summaries

\* "async with db_session.get_session() as session": async_session_maker
\* makes the session, the body builds the repository on it and awaits one
\* of its methods.
get_session_enter(method, w, arg) ==
    /\ scope.pc = "idle"
    /\ scope.opened < MaxScopes
    /\ scope' = [scope EXCEPT !.pc = "body", !.session = "open",
                    !.opened = @ + 1, !.method = method, !.record_type = w,
                    !.arg = arg, !.before = TableOf(w), !.result = Nil,
                    !.exc = Nil, !.rollbacks = 0]
    /\ UNCHANGED << hvars, tvars, create_log, x_but_scope >>

\* The awaited method ends: it returns, or raises after the rollback of its
\* own except branch where it has one.
method_ends(db) ==
    /\ scope.pc = "body"
    /\ LET out == MethodCall(scope.method, scope.record_type, scope.arg, db)
       IN /\ Commit(scope.method, scope.record_type, out.table)
          /\ scope' = [scope EXCEPT
                 !.pc = IF out.error = NoError THEN "returned" ELSE "raised",
                 !.result = out.result, !.exc = out.error,
                 !.rollbacks = IF out.error # NoError /\ RollsBack(scope.method)
                               THEN 1 ELSE 0]
    /\ UNCHANGED << kind, pc, req, hospitalization_id, task, resp, comp, save,
                    saved, exc, ret, tvars, create_log, x_but_scope >>

\* The task is cancelled while the method awaits the database:
\* CancelledError is not an Exception, so no except branch of the method
\* runs.  Cancelled while the commit is awaited, the change may already be
\* durable.
method_cancelled(committed) ==
    /\ scope.pc = "body"
    /\ LET out == MethodCall(scope.method, scope.record_type, scope.arg,
                             IF committed THEN "refresh_fails" ELSE "commit_fails")
       IN Commit(scope.method, scope.record_type, out.table)
    /\ scope' = [scope EXCEPT !.pc = "cancelled",
                    !.exc = RawError("CancelledError")]
    /\ UNCHANGED << kind, pc, req, hospitalization_id, task, resp, comp, save,
                    saved, exc, ret, tvars, create_log, x_but_scope >>

get_session_exit_CloseOnlyAfterSuccess(how, rollback_ok) ==
    [ session |-> IF how = "returned" THEN "closed" ELSE "open",
      closed |-> IF how = "returned" THEN scope.closed + 1 ELSE scope.closed,
      rollbacks |-> scope.rollbacks,
      exc |-> scope.exc ]

\* get_session once the body has ended in way how: "except Exception" rolls
\* back and re-raises, and "finally" closes the session on every path, also
\* when the rollback itself raises (its exception then replaces the body's);
\* the session's own "async with" closes it as well.
get_session_exit(how, rollback_ok) ==
    [ session |-> "closed",
      closed |-> scope.closed + 1,
      rollbacks |-> IF how = "raised" /\ rollback_ok
                    THEN scope.rollbacks + 1 ELSE scope.rollbacks,
      exc |-> IF how = "raised" /\ ~rollback_ok
              THEN RawError("SQLAlchemyError") ELSE scope.exc ]

\* Control leaves the scope and the caller of the operation resumes.
scope_exit(rollback_ok) ==
    /\ scope.pc \in { "returned", "raised", "cancelled" }
    /\ LET end == get_session_exit(scope.pc, rollback_ok)
       IN scope' = [scope EXCEPT !.pc = "idle", !.session = end.session,
                       !.closed = end.closed, !.rollbacks = end.rollbacks,
                       !.exc = end.exc,
                       !.exits = @ \cup {scope.pc}, !.last = scope.pc]
    /\ UNCHANGED << hvars, tvars, create_log, x_but_scope >>

NextScope ==
    \/ \E method \in RepositoryMethods, w \in RecordTypes :
           \E arg \in ArgsOf(method) : get_session_enter(method, w, arg)
    \/ \E db \in QueryOutcomes : method_ends(db)
    \/ \E committed \in BOOLEAN : method_cancelled(committed)
    \/ \E rollback_ok \in BOOLEAN : scope_exit(rollback_ok)

SpecScope == Init /\ [][NextScope]_vars

\* ======================================================================
\* TimingData.length_of_stay_days on any two date strings
\* ======================================================================
MaxDay == 3

\* Date strings of every form, a few days apart, at midnight and at noon.
DateStrs ==
    { DateStr(form, day, hour) :
        form \in { "z", "offset", "naive" }, day \in 1..MaxDay, hour \in { 0, 12 } }
    \cup { DateStr("invalid", 0, 0) }

InitTiming ==
    /\ max_retries = MaxRetriesDefault
    /\ ToolInit
    /\ create_log = << >>
    /\ HandlerInit
    /\ AuxInit
    /\ stay \in { [ timing |-> [admission_date |-> a, discharge_date |-> d],
                    read |-> FALSE, result |-> Nil ] : a, d \in DateStrs }

\* timing.length_of_stay_days is read.
ReadLengthOfStay ==
    /\ ~stay.read
    /\ stay' = [stay EXCEPT !.read = TRUE, !.result = length_of_stay_days(stay.timing)]
    /\ UNCHANGED << hvars, tvars, create_log, x_but_stay >>

NextTiming == ReadLengthOfStay

SpecTiming == InitTiming /\ [][NextTiming]_vars

\* ======================================================================
\* Properties
\* ======================================================================
ProcessCalls == { c \in Calls : kind[c] = "process" }

Rows == clinical_summaries \cup hospital_summaries

\* The rows call c has stored, and the rows that carry its correlation id.
StoredBy(c) == { saved[c][w].stored : w \in { x \in RecordTypes : saved[c][x].stored # Nil } }

Ended(state) == state \in { "ok", "failed", "discarded" }

\* C1: all-or-nothing at the extraction stage.  Once a capability run of a
\* process call has failed, the call has raised, neither save task (session
\* and repository.create) was ever started for it, and no stored row carries
\* its hospitalization_id.
C1_AllOrNothingExtraction ==
    \A c \in ProcessCalls :
        (\E t \in Tools : task[c][t] = "failed") =>
            /\ pc[c] = "raised"
            /\ \A w \in RecordTypes : save[c][w] = "none" /\ saved[c][w].stored = Nil
            /\ ret[c] = Nil
            /\ \A row \in Rows : row.hospitalization_id # hospitalization_id[c]

\* Witness of C1: a process call has raised on a failed capability after a
\* sibling had already returned and while another sibling is still running.
C1_Witness ==
    \E c \in ProcessCalls :
        /\ pc[c] = "raised"
        /\ \E t, u, v \in Tools :
              /\ task[c][t] = "failed"
              /\ task[c][u] = "discarded"
              /\ task[c][v] = "running"

\* C2: one correlation id per successful call.  Every row a process call has
\* stored and, once it has returned, every hospitalization_id of its summary
\* is the id the call drew at its start, whatever id facility/timing returned.
C2_OneCorrelationId ==
    \A c \in ProcessCalls :
        /\ \A row \in StoredBy(c) :
              row \in Rows /\ row.hospitalization_id = hospitalization_id[c]
        /\ pc[c] = "returned" =>
              /\ ret[c].hospitalization_id = hospitalization_id[c]
              /\ ret[c].clinical_summary.hospitalization_id = hospitalization_id[c]
              /\ ret[c].hospital_summary.hospitalization_id = hospitalization_id[c]
              /\ Cardinality(StoredBy(c)) = 2

\* Witness of C2: a process call has returned for a note whose facility/timing
\* response carried an encounter id of its own.
C2_Witness ==
    \E c \in ProcessCalls :
        /\ pc[c] = "returned"
        /\ resp[c]["facility_timing"].value.hospitalization_id = "ENC-1"
        /\ Cardinality(StoredBy(c)) = 2

\* C3: a correlation id is never reused.  Two different process calls never
\* hold the same hospitalization_id, and rows stored by different calls never
\* share one.
C3_IdNeverReused ==
    \A c, d \in ProcessCalls :
        c # d =>
            /\ hospitalization_id[c] # hospitalization_id[d]
            /\ \A x \in StoredBy(c), y \in StoredBy(d) :
                  x.hospitalization_id # y.hospitalization_id

\* Witness of C3: two process calls on the same document and owner have both
\* stored their two records.
C3_Witness ==
    /\ \A c \in Calls : kind[c] = "process" /\ Cardinality(StoredBy(c)) = 2
    /\ req[1] = req[2]

\* C4: concurrent calls are isolated.  Whatever a process call has assembled,
\* stored or returned holds only its own correlation id, its own owner and
\* capability outputs read from its own text.
OwnData(c, data) == data.src = req[c].raw_text

C4_CallsIsolated ==
    \A c \in ProcessCalls :
        /\ \A t \in Tools :
              resp[c][t] # Nil /\ resp[c][t].ok => OwnData(c, resp[c][t].value.data)
        /\ comp[c]["clinical"] # Nil =>
              /\ comp[c]["clinical"].metadata.hospitalization_id = hospitalization_id[c]
              /\ comp[c]["clinical"].metadata.patient_id = req[c].patient_id
              /\ comp[c]["hospital"].hospitalization_id = hospitalization_id[c]
        /\ \A row \in StoredBy(c) :
              /\ row.hospitalization_id = hospitalization_id[c]
              /\ row.patient_id = req[c].patient_id
        /\ saved[c]["clinical"].record # Nil =>
              \A t \in ClinicalTools :
                  OwnData(c, saved[c]["clinical"].record.sections[t])
        /\ saved[c]["hospital"].record # Nil =>
              /\ OwnData(c, saved[c]["hospital"].record.facility)
              /\ OwnData(c, saved[c]["hospital"].record.diagnosis)
              /\ OwnData(c, saved[c]["hospital"].record.medication_risk_assessment)
        /\ pc[c] = "returned" =>
              /\ ret[c].hospitalization_id = hospitalization_id[c]
              /\ ret[c].clinical_summary.patient_id = req[c].patient_id
              /\ ret[c].hospital_summary.patient_id = req[c].patient_id

\* Witness of C4: two process calls for different owners and texts were in
\* flight together (the second started before the first had its results) and
\* both have returned.
C4_Witness ==
    /\ \A c \in Calls : kind[c] = "process" /\ pc[c] = "returned"
    /\ req[1].patient_id # req[2].patient_id
    /\ req[1].raw_text # req[2].raw_text
    /\ saved[1]["clinical"].record.id = Uuid4(3)
    /\ saved[2]["clinical"].record.id = Uuid4(4)

\* C5 as claimed: on every path that assembles a hospital admission composite
\* (extract and process), diagnosis and medication-risk are started only
\* after facility/timing has completed.
Started(c, t) == task[c][t] # "none"

C5_DiscoveryFirstEverywhere ==
    \A c \in Calls :
        kind[c] \in { "process", "hospital_extract" } =>
            \A t \in HospitalExtractTasks :
                Started(c, t) => task[c]["facility_timing"] \in { "ok", "discarded" }

\* C5 as amended: in HospitalAdmissionSummaryCardExtractor.extract, diagnosis
\* and medication-risk are started only after facility/timing has returned
\* (process starts all its tools together).
C5_DiscoveryFirstInExtract ==
    \A c \in Calls :
        kind[c] = "hospital_extract" =>
            \A t \in HospitalExtractTasks :
                Started(c, t) => task[c]["facility_timing"] \in { "ok", "discarded" }

\* Witness of C5: an extract call whose diagnosis task is running after
\* facility/timing returned the note's encounter id.
C5_Witness ==
    \E c \in Calls :
        /\ kind[c] = "hospital_extract"
        /\ task[c]["diagnosis"] = "running"
        /\ task[c]["facility_timing"] = "ok"
        /\ hospitalization_id[c] = "ENC-1"

\* C6: no partially filled composite.  In either aggregator's extract a
\* composite exists only if every capability run feeding it succeeded; once
\* a run has failed, extract has raised and has built and returned nothing.
Feeds(w) == IF w = "clinical" THEN ClinicalTools ELSE HospitalTools

ExtractCalls == { c \in Calls : kind[c] \in { "hospital_extract", "clinical_extract" } }

C6_NoPartialComposite ==
    \A c \in ExtractCalls :
        /\ \A w \in RecordTypes :
              comp[c][w] # Nil => \A t \in Feeds(w) : task[c][t] = "ok"
        /\ (\E t \in Tools : task[c][t] = "failed") =>
              /\ pc[c] = "raised"
              /\ ret[c] = Nil
              /\ \A w \in RecordTypes : comp[c][w] = Nil

\* Witness of C6: each aggregator has raised in one call after one of its
\* capability runs failed; the other has returned a composite.
C6_Witness ==
    /\ \E c \in ExtractCalls :
          /\ kind[c] = "hospital_extract"
          /\ pc[c] = "raised"
          /\ task[c]["medication_risk"] = "failed"
          /\ task[c]["facility_timing"] = "discarded"
    /\ \E c \in ExtractCalls :
          /\ kind[c] = "clinical_extract"
          /\ pc[c] = "returned"
          /\ comp[c]["clinical"] # Nil

\* C7: one tool.run makes at most max_retries + 1 model requests, for every
\* configured max_retries in 0..5 and every pattern of invalid outputs and
\* failing requests.
C7_AttemptsBounded ==
    /\ max_retries \in 0..MaxRetriesLimit
    /\ attempts <= max_retries + 1

\* A run with max_retries = 5 that raised after exhausting its retries, having
\* made all six requests.
C7_Witness ==
    /\ max_retries = MaxRetriesLimit
    /\ run_state = "raised"
    /\ run_result.error.cause = "UnexpectedModelBehavior"
    /\ attempts = max_retries + 1

\* C8 (as claimed): a process call that has started its capabilities
\* eventually returns or raises, even when a capability never responds.
C8_ProcessTerminates ==
    \A c \in FairCalls : (pc[c] = "gather_extract") ~> (pc[c] \in { "returned", "raised" })

\* C9 (as claimed): when process has raised because a capability failed, the
\* exception is an ExtractionError that carries the capability's name and
\* the underlying error as its cause.
C9_FailureIsExtractionError ==
    \A c \in ProcessCalls :
        (pc[c] = "raised" /\ \A w \in RecordTypes : save[c][w] = "none") =>
            /\ exc[c].type \in ExtractionErrorTypes
            /\ exc[c].extractor_name \in Tools
            /\ exc[c].cause \in AgentFailures

\* Pairs of create calls on repository w: an earlier one that succeeded and
\* a later one with the same non-null hospitalization_id, the database being
\* up for it.
Twice(w) ==
    { p \in (DOMAIN create_log) \X (DOMAIN create_log) :
        /\ p[1] < p[2]
        /\ create_log[p[1]].record_type = w
        /\ create_log[p[2]].record_type = w
        /\ create_log[p[1]].hospitalization_id # None
        /\ create_log[p[1]].hospitalization_id = create_log[p[2]].hospitalization_id
        /\ create_log[p[1]].out.record # Nil
        /\ create_log[p[2]].db # "commit_fails" }

RowsWith(w, hid) == { row \in TableOf(w) : row.hospitalization_id = hid }

SecondRejected(w, p) ==
    /\ create_log[p[2]].out.record = Nil
    /\ create_log[p[2]].out.error.type = "DuplicateRecordError"
    /\ Cardinality(RowsWith(w, create_log[p[1]].hospitalization_id)) = 1

Payload(row) == [f \in DOMAIN row \ { "id" } |-> row[f]]

\* C12 (as claimed): persisting a composite is lossless.  Whatever can be
\* read back is a function of the stored row, so two composites of a record
\* type stored with the same columns are the same composite.
C12_LosslessPersistence ==
    \A i, j \in Slots :
        ( /\ kept[i] # Nil /\ kept[j] # Nil
          /\ kept[i].record_type = kept[j].record_type
          /\ Payload(kept[i].row) = Payload(kept[j].row) )
        => kept[i].composite = kept[j].composite

CountFields == { "total_tests", "critical_count", "abnormal_count", "normal_count" }

\* C20 (as claimed): the derived lab summary never overwrites a count the
\* labs capability provided.  Every non-zero count of the returned
\* lab_summary appears unchanged in the assembled composite.
C20_ProvidedCountsKept ==
    \A i \in Slots :
        (kept[i] # Nil /\ kept[i].record_type = "clinical") =>
            \A f \in CountFields :
                kept[i].labs_resp.lab_summary[f] # 0 =>
                    kept[i].composite.summary["labs"].lab_summary[f]
                        = kept[i].labs_resp.lab_summary[f]

\* C13 (as claimed): a validation failure blocks persistence on every
\* process path.  No stored record of a handler.process call comes from a
\* composite that _validate_extraction rejects (the clinical check reads the
\* lab summary, so it applies when the labs tool is among those run).
C13_InvalidNeverPersisted ==
    \A c \in ProcessCalls :
        /\ saved[c]["hospital"].record # Nil =>
               _validate_extraction("hospital_summary", comp[c]["hospital"]) = Nil
        /\ (saved[c]["clinical"].record # Nil /\ "labs" \in ClinicalTools) =>
               _validate_extraction("clinical_summary", comp[c]["clinical"]) = Nil

\* C14 (as claimed): when the assembled composite fails _validate_extraction,
\* the caller of ExtractionService.process receives a ValidationError.
C14_ValidationErrorSurfaces ==
    ( /\ svc.pc = "raised"
      /\ svc.composite # Nil
      /\ _validate_extraction(svc.extractor_name, svc.composite) # Nil )
    => svc.exc.type = "ValidationError"

\* C15: persistence is per record type, with no compensation.  Whatever a
\* save task of a process call has committed stays stored, whether the other
\* save task fails before or after it; and a call one of whose save tasks has
\* failed has raised.
C15_NoCompensation ==
    \A c \in ProcessCalls :
        /\ \A w \in RecordTypes :
               saved[c][w].stored # Nil => saved[c][w].stored \in TableOf(w)
        /\ (\E w \in RecordTypes : save[c][w] = "failed") => pc[c] = "raised"

\* A process call that has raised because one save failed, with its other
\* record, and only that one, stored.
C15_Witness ==
    \E c \in ProcessCalls :
        /\ pc[c] = "raised"
        /\ \E w, x \in RecordTypes :
              /\ save[c][w] = "failed"
              /\ save[c][x] = "done"
              /\ saved[c][x].stored \in TableOf(x)
        /\ Cardinality(StoredBy(c)) = 1

\* C16: rollback before the raise, and nothing changed.  When create, update
\* or delete has raised to its caller, its except branch has rolled the
\* session back and the table holds exactly the rows it held when the
\* method was called.
C16_FailedWriteLeavesRecords ==
    (scope.pc = "raised" /\ RollsBack(scope.method)) =>
        /\ scope.rollbacks >= 1
        /\ TableOf(scope.record_type) = scope.before

\* C17: every session is released on every exit path.  Whenever no scope is
\* being executed (the operation that opened one has returned, raised or
\* been cancelled), every session made so far has been closed and the last
\* one is not open.
C17_SessionReleased ==
    scope.pc = "idle" =>
        /\ scope.session # "open"
        /\ scope.closed = scope.opened

\* Scopes have been left in all three ways, the last by cancellation.
C17_Witness ==
    /\ scope.pc = "idle"
    /\ scope.exits = { "returned", "raised", "cancelled" }
    /\ scope.last = "cancelled"
    /\ scope.session = "closed"

\* The calls about name n among the first k calls made on the registry.
CallsAbout(n, k) == { i \in 1..k : registry.history[i].name = n }

Latest(n, k) == CHOOSE i \in CallsAbout(n, k) : \A j \in CallsAbout(n, k) : j <= i

\* Whether n was registered once the first k calls had been made.
PresentAfter(n, k) ==
    /\ CallsAbout(n, k) # {}
    /\ registry.history[Latest(n, k)].op = "register"

\* The register calls made on a name that was present at the time.
Overwrites ==
    { i \in DOMAIN registry.history :
        /\ registry.history[i].op = "register"
        /\ PresentAfter(registry.history[i].name, i - 1) }

\* C18: register adds or overwrites by name.  After any sequence of register
\* and unregister calls, get(n) is the instance of the latest register of n
\* if no unregister of n followed it and None otherwise; list_names has one
\* entry for each registered name and none else; and the warnings logged
\* are as many as the register calls made on a present name.
C18_RegisterOverwritesByName ==
    LET k == Len(registry.history)
    IN /\ \A n \in RegisteredExtractors :
             get(n) = IF PresentAfter(n, k)
                      THEN registry.history[Latest(n, k)].extractor ELSE Nil
       /\ \A i, j \in DOMAIN list_names : list_names[i] = list_names[j] => i = j
       /\ { list_names[i] : i \in DOMAIN list_names } =
              { n \in RegisteredExtractors : PresentAfter(n, k) }
       /\ Len(registry.warnings) = Cardinality(Overwrites)
       /\ \A i \in Overwrites :
             \E w \in DOMAIN registry.warnings :
                 registry.warnings[w] = registry.history[i].name

\* A name was registered, registered again over the first instance, and the
\* second instance is what get returns, with the warning logged.
C18_Witness ==
    \E n \in RegisteredExtractors :
        /\ get(n) # Nil
        /\ get(n).instance > 1
        /\ Overwrites # {}
        /\ \E w \in DOMAIN registry.warnings : registry.warnings[w] = n
        /\ Len(list_names) = 2

\* The partial results the composite of record type w of call c is built
\* from: the back-filled copies of the clinical responses, and the hospital
\* responses as their runs returned them.
Fed(c, w) ==
    IF w = "clinical"
    THEN BackFilled(req[c].patient_id, hospitalization_id[c],
                    Values(resp[c], ClinicalTools))
    ELSE Values(resp[c], HospitalTools)

CarriesIds(c, response) ==
    /\ response.patient_id = req[c].patient_id
    /\ response.hospitalization_id = hospitalization_id[c]

C30_LengthOfStayTotal ==
    (stay # Nil /\ stay.read) =>
        /\ stay.result.error = None
        /\ stay.result.value \in Nat

\* C21: the length-of-stay column is derivable from the payload.  Every
\* stored hospital summary's length_of_stay_days equals the length of stay
\* computed from its stored timing.
C21_LengthOfStayDerivable ==
    \A row \in hospital_summaries :
        row.length_of_stay_days = length_of_stay_days(row.timing).value

\* C22: nothing of a call is in flight once it has ended.  When a process
\* call has returned or raised, none of its capability runs is still
\* running and none of its save tasks is still inside its session.
C22_NothingInFlightAtEnd ==
    \A c \in ProcessCalls :
        pc[c] \in { "returned", "raised" } =>
            /\ \A t \in Tools : task[c][t] # "running"
            /\ \A w \in RecordTypes : save[c][w] \notin { "open", "committed", "aborted" }

\* C23: a summary is returned only after both saves have committed.  When a
\* process call has returned, both its save tasks are done, each table holds
\* exactly one row with the call's hospitalization_id, and the summary names
\* that id and the ids of those two rows.
C23_ReturnAfterBothCommitted ==
    \A c \in ProcessCalls :
        pc[c] = "returned" =>
            /\ \A w \in RecordTypes :
                  /\ save[c][w] = "done"
                  /\ Cardinality(RowsWith(w, hospitalization_id[c])) = 1
            /\ ret[c].hospitalization_id = hospitalization_id[c]
            /\ \A row \in RowsWith("clinical", hospitalization_id[c]) :
                  ret[c].clinical_summary.id = row.id
            /\ \A row \in RowsWith("hospital", hospitalization_id[c]) :
                  ret[c].hospital_summary.id = row.id

\* A process call has returned its summary while the other call, which
\* raised, has left a row of its own in a table.
C23_Witness ==
    \E c, d \in ProcessCalls :
        /\ pc[c] = "returned"
        /\ pc[d] = "raised"
        /\ Cardinality(RowsWith("clinical", hospitalization_id[c])) = 1
        /\ Cardinality(RowsWith("hospital", hospitalization_id[c])) = 1
        /\ StoredBy(d) # {}

\* The repository call in progress is an update or a delete of row's own id.
Targets(w, row) ==
    /\ scope.pc = "body"
    /\ scope.record_type = w
    /\ \/ scope.method = "update" /\ scope.arg.record_id = row.id
       \/ scope.method = "delete" /\ scope.arg = row.id

\* The id an update or delete in progress names is the id of no stored row.
TargetsNoRow ==
    /\ scope.pc = "body"
    /\ scope.method \in { "update", "delete" }
    /\ LET record_id == IF scope.method = "update" THEN scope.arg.record_id
                        ELSE scope.arg
       IN \A row \in TableOf(scope.record_type) : row.id # record_id

\* C24: a stored record changes only through an update of its own id.  In
\* every step, a stored row stays as it is unless the step is an update or a
\* delete of that row's id; an update leaves a row with the same id in its
\* place; and an update or delete that names no stored id changes neither
\* table and returns None / False.
C24_ChangedOnlyByOwnUpdate ==
    [][ /\ \A w \in RecordTypes : \A row \in TableOf(w) :
              /\ ~Targets(w, row) => row \in TableOf(w)'
              /\ (Targets(w, row) /\ scope.method = "update") =>
                     \E new \in TableOf(w)' : new.id = row.id
        /\ (TargetsNoRow /\ scope'.pc = "returned") =>
              /\ UNCHANGED << clinical_summaries, hospital_summaries >>
              /\ scope.method = "update" => scope'.result = Nil
              /\ scope.method = "delete" => scope'.result = FALSE
      ]_vars

\* Of two stored rows one has been updated, the other is as it was; the data
\* of the update named an id of its own.
C24_Witness ==
    /\ scope.pc = "returned"
    /\ scope.method = "update"
    /\ scope.result # Nil
    /\ "id" \in DOMAIN scope.arg.data
    /\ scope.result \notin scope.before
    /\ \E row \in TableOf(scope.record_type) :
          row \in scope.before /\ row.id # scope.arg.record_id

\* C25: read-back after create.  Once create has returned a record that
\* has a hospitalization_id, each of the three lookups, made for that
\* record's id, hospitalization_id and patient_id, raises nothing and gives
\* the record back.
C25_ReadBackAfterCreate ==
    ( /\ scope.pc = "returned"
      /\ scope.method = "create"
      /\ scope.result.hospitalization_id # None ) =>
        LET w == scope.record_type
            record == scope.result
            by_id == get_by_id(w, record.id, "ok")
            by_hid == get_by_hospitalization_id(w, record.hospitalization_id, "ok")
            by_patient == get_by_patient_id(w, record.patient_id, "ok")
        IN /\ by_id.error = NoError /\ by_id.result = record
           /\ by_hid.error = NoError /\ by_hid.result = record
           /\ by_patient.error = NoError /\ record \in by_patient.result.items

\* The tables are as they were when the service call in progress began.
ServiceStoredNothing ==
    /\ clinical_summaries = svc.before.clinical
    /\ hospital_summaries = svc.before.hospital

\* C26: in ExtractionService.process persistence strictly follows
\* extraction.  A call opens at most one session and calls create at most
\* once, and only with the data extract returned; while extract is awaited,
\* and after it has raised, the call has opened no session, called no create
\* and stored nothing.
C26_PersistenceFollowsExtraction ==
    svc.pc # "idle" =>
        /\ svc.sessions <= 1
        /\ svc.creates <= svc.sessions
        /\ svc.sessions = 1 => (svc.data # Nil /\ svc.composite # Nil)
        /\ (svc.pc = "extracting" \/ (svc.pc = "raised" /\ svc.data = Nil)) =>
              /\ svc.sessions = 0
              /\ svc.creates = 0
              /\ ServiceStoredNothing

\* The second call's extract has raised after its aggregator was awaited;
\* the row of the first call is all that is stored.
C26_Witness ==
    /\ svc.calls = 2
    /\ svc.pc = "raised"
    /\ svc.invoked
    /\ svc.data = Nil
    /\ svc.before.clinical \cup svc.before.hospital # {}
    /\ ServiceStoredNothing

\* C27: an unknown extractor name raises ValueError before anything else.
\* A call naming an extractor the registry does not hold has raised
\* ValueError, and ValueError is raised for no other call; no capability was
\* invoked and no session opened for it, and the registry and both tables
\* are as they were.
C27_UnknownExtractorRejected ==
    LET unknown == ~Contains(registry._extractors, svc.extractor_name)
    IN svc.pc # "idle" =>
        /\ unknown <=> (svc.pc = "raised" /\ svc.exc.type = "ValueError")
        /\ unknown =>
              /\ ~svc.invoked
              /\ svc.sessions = 0
              /\ svc.creates = 0
              /\ registry = svc.before.registry
              /\ ServiceStoredNothing

\* A call with an unknown name has raised ValueError with a row of an
\* earlier call in the store.
C27_Witness ==
    /\ svc.pc = "raised"
    /\ svc.exc.type = "ValueError"
    /\ ~Contains(registry._extractors, svc.extractor_name)
    /\ svc.before.clinical \cup svc.before.hospital # {}
    /\ registry = RegisteredAtImport

\* C28: input validation precedes every capability invocation.  A call of a
\* registered wrapper with an empty or white-space-only patient_id or
\* raw_text has raised ValidationError, without its aggregator being awaited
\* and with nothing stored.
C28_ValidationPrecedesInvocation ==
    ( /\ svc.pc # "idle"
      /\ Contains(registry._extractors, svc.extractor_name)
      /\ (svc.patient_id \in Blank \/ svc.raw_text \in Blank) ) =>
        /\ svc.pc = "raised"
        /\ svc.exc.type = "ValidationError"
        /\ ~svc.invoked
        /\ svc.sessions = 0
        /\ ServiceStoredNothing

\* A call with a white-space-only raw_text was rejected.
C28_Witness ==
    /\ svc.pc = "raised"
    /\ svc.exc.type = "ValidationError"
    /\ svc.raw_text = " "
    /\ svc.patient_id = "P-1"
    /\ ~svc.invoked

\* C29: the fallback lab summary is internally consistent.  Whenever the
\* returned lab_summary has no positive total_tests, the summary of the
\* assembled composite has total_tests equal to the number of lab_results,
\* equal to the sum of its three other counts, and no negative count.
C29_FallbackSummaryConsistent ==
    \A i \in Slots :
        ( /\ kept[i] # Nil
          /\ kept[i].record_type = "clinical"
          /\ ~(kept[i].labs_resp.lab_summary.total_tests > 0) ) =>
            LET labs == kept[i].composite.summary["labs"]
                s == labs.lab_summary
            IN /\ labs.lab_results = kept[i].labs_resp.lab_results
               /\ s.total_tests = Len(labs.lab_results)
               /\ s.total_tests = s.critical_count + s.abnormal_count + s.normal_count
               /\ \A f \in CountFields : s[f] >= 0

\* A composite assembled from two tests, one critical and one abnormally
\* low, whose returned summary had no total.
C29_Witness ==
    \E i \in Slots :
        /\ kept[i] # Nil
        /\ kept[i].record_type = "clinical"
        /\ kept[i].labs_resp.lab_results = << "critical", "abnormal_low" >>
        /\ kept[i].labs_resp.lab_summary = LabSummary(0, 1, 0, 0)
        /\ kept[i].composite.summary["labs"].lab_summary = LabSummary(2, 1, 1, 0)

====
